---- MODULE Spec2Model ----
(***************************************************************************)
(* A model of src/src/lib.rs: the OwningRef<O, T> combinator, which bundles *)
(* an owner O with a raw pointer `reference: *const T` into the storage the *)
(* owner anchors.                                                           *)
(*                                                                          *)
(* Memory is a set of heap blocks plus one block of static storage.  An     *)
(* owner handle names the block it anchors; a pointer is (block, offset,    *)
(* length), the length being the metadata of a fat pointer to a slice.      *)
(* Moving a handle does not change the block it names, which is what        *)
(* `unsafe impl StableAddress` promises for Box, Vec, String, Rc and Arc.   *)
(***************************************************************************)
EXTENDS Integers, Sequences, FiniteSets, TLC

(***************************************************************************)
(* Bounds of the model.                                                     *)
(***************************************************************************)
MaxBlocks == 2      \* heap blocks that can be allocated at the same time
MaxSlots == 2       \* combinators that can be live at the same time
MaxLen == 2         \* longest owner payload
MaxHandles == 2     \* handles of one shared block (the cap on its count)

VARIABLES
    heap,       \* block -> [alive, shared, data, rc]: the storage the owners anchor
    loose,      \* block -> number of owner handles held outside any combinator
    comb,       \* slot -> the OwningRef value held there (or NoComb)
    last,       \* the last call: its name, what it was made on, what it returned
    threads     \* the threads spawned beside the caller's (none in Spec)

vars == <<heap, loose, comb, last, threads>>

Blocks == 1..MaxBlocks
Slots == 1..MaxSlots

\* The block of storage with 'static lifetime (string literals, statics).
StaticBlk == 0
StaticData == <<7>>

\* unsafe impl StableAddress for Box<T>, Vec<T>, String, Rc<T>, Arc<T>
StableAddress == {"Box", "Vec", "String", "Rc", "Arc"}
\* unsafe impl CloneStableAddress for Rc<T>, Arc<T>
CloneStableAddress == {"Rc", "Arc"}

\* The payloads an owner is built over: slices of 0..MaxLen elements that
\* differ from each other and from the static data.
Payloads == {[i \in 1..n |-> 10 + i] : n \in 0..MaxLen}

NoBlock == [alive |-> FALSE, shared |-> FALSE, data |-> <<>>, rc |-> 0]
NullPtr == [blk |-> StaticBlk, off |-> 0, len |-> 0]
\* `origin` is a history field: the payload of the owner at OwningRef::new.
NoComb == [st |-> "none", owner |-> 0, reference |-> NullPtr, origin |-> <<>>]
\* on: the slot the call was made on or returned; src: the slot a clone was
\* taken of; owner: the block of the owner involved; val: the value returned.
NoCall == [op |-> "init", on |-> 0, src |-> 0, owner |-> 0, val |-> <<>>]

(***************************************************************************)
(* Memory.                                                                  *)
(***************************************************************************)
\* The contents of block b in heap h.
Mem(h, b) == IF b = StaticBlk THEN StaticData ELSE h[b].data

\* Pointer p points at allocated memory of heap h (it may be dereferenced).
Valid(h, p) ==
    /\ p.blk = StaticBlk \/ h[p.blk].alive
    /\ p.off + p.len <= Len(Mem(h, p.blk))

\* unsafe { &*p }: the value read through p.
Read(h, p) == SubSeq(Mem(h, p.blk), p.off + 1, p.off + p.len)

\* Mutant of OwnerDeref: the slice is taken one element too long.
OwnerDerefBad(h, b) == [blk |-> b, off |-> 0, len |-> Len(h[b].data) + 1]

\* &*o for an owner handle o: the whole payload of the block it anchors.
OwnerDeref(h, b) == [blk |-> b, off |-> 0, len |-> Len(h[b].data)]

\* o.clone() for a shared owner: only the count of the block changes.
OwnerClone(h, b) == [h EXCEPT ![b].rc = @ + 1]

\* Mutant of OwnerDrop: the block is released whatever its count.
OwnerDropEager(h, b) == [h EXCEPT ![b] = NoBlock]

\* drop(o): an exclusive owner releases its block; a shared owner decrements
\* the count and releases the block when the count reaches zero.
OwnerDrop(h, b) ==
    IF h[b].shared /\ h[b].rc > 1
    THEN [h EXCEPT ![b].rc = @ - 1]
    ELSE [h EXCEPT ![b] = NoBlock]

(***************************************************************************)
(* Projections: the closures handed to map.  A projection is the sequence   *)
(* of primitive steps it takes from the reference it is given:              *)
(*   Sub(lo, hi)   |s| &s[lo..hi]   (panics when out of range)              *)
(*   ToStatic(k)   |_| a reference to static storage                        *)
(*   ToLeaked(b)   |_| a &'static reference to the leaked heap block b       *)
(***************************************************************************)
Sub(lo, hi) == [tag |-> "sub", lo |-> lo, hi |-> hi]
ToStatic(k) == [tag |-> "static", lo |-> k, hi |-> k + 1]
ToLeaked(b) == [tag |-> "leaked", lo |-> b, hi |-> b]

PrimProj ==
    UNION {{Sub(lo, hi) : hi \in lo..MaxLen} : lo \in 0..MaxLen}
        \cup {ToStatic(k) : k \in 0..(Len(StaticData) - 1)}

Panic == [blk |-> StaticBlk, off |-> 0, len |-> 0, panic |-> TRUE]
IsPanic(p) == "panic" \in DOMAIN p

\* One primitive step applied to the reference p.
Step(p, s) ==
    IF s.tag = "static" THEN [blk |-> StaticBlk, off |-> s.lo, len |-> 1]
    ELSE IF s.tag = "leaked" THEN [blk |-> s.lo, off |-> 0, len |-> 1]
    ELSE IF s.lo <= s.hi /\ s.hi <= p.len
         THEN [blk |-> p.blk, off |-> p.off + s.lo, len |-> s.hi - s.lo]
         ELSE Panic

\* f(x) for the projection f: its steps in turn, a panic ending the call.
RECURSIVE Apply(_, _)
Apply(f, p) ==
    IF f = <<>> \/ IsPanic(p) THEN p
    ELSE Apply(Tail(f), Step(p, Head(f)))

\* |x| g(f(x))
Compose(f, g) == f \o g


(***************************************************************************)
(* The combinator's operations as functions of the OwningRef value.         *)
(***************************************************************************)
\* Mutant of NewResult: the pointer is taken without the payload's length.
NewResultBad(h, b) ==
    [st |-> "live", owner |-> b, reference |-> [blk |-> b, off |-> 0, len |-> 0],
     origin |-> h[b].data]

\* OwningRef::new(o): `let ptr: *const T = &*o; OwningRef { owner: o, reference: ptr }`
NewResult(h, b) ==
    [st |-> "live", owner |-> b, reference |-> OwnerDeref(h, b), origin |-> h[b].data]

\* Deref::deref: `unsafe { &*self.reference }`
DerefPtr(cv) == cv.reference

\* Mutant of MapPtr: f is called on &*self.owner, not on &*self.
MapPtrBad(cv, f) == Apply(f, [blk |-> cv.owner, off |-> 0, len |-> Len(cv.origin)])

\* `let ptr = f(&*self) as *const _;` in map
MapPtr(cv, f) == Apply(f, DerefPtr(cv))

\* self.map(f): `OwningRef { owner: self.owner, reference: ptr }`.  When f
\* panics there is no result: self, which map owns, is dropped by the unwinding.
MapResult(cv, f) ==
    IF IsPanic(MapPtr(cv, f)) THEN NoComb
    ELSE [cv EXCEPT !.reference = MapPtr(cv, f)]

\* Mutant of CloneResult: the pointer is taken anew from the cloned owner.
CloneResultBad(cv) == [cv EXCEPT !.reference = [blk |-> cv.owner, off |-> 0, len |-> Len(cv.origin)]]

\* self.clone(): `OwningRef { owner: self.owner.clone(), reference: self.reference }`
CloneResult(cv) == [cv EXCEPT !.reference = cv.reference]

\* Mutant of CloneHeap: the owner handle is copied, not cloned.
CloneHeapBad(h, cv) == h

\* What self.owner.clone() does to the storage.
CloneHeap(h, cv) == OwnerClone(h, cv.owner)

Live(c) == comb[c].st = "live"
FreeSlots == {c \in Slots : ~Live(c)}
FreeBlocks == {b \in Blocks : ~heap[b].alive}

\* The handles of block b: those held loose and those inside combinators.
Handles(cm, ls, b) ==
    ls[b] + Cardinality({c \in DOMAIN cm : cm[c].st = "live" /\ cm[c].owner = b})

(***************************************************************************)
(* Actions.                                                                 *)
(***************************************************************************)
Init ==
    /\ heap = [b \in Blocks |-> NoBlock]
    /\ loose = [b \in Blocks |-> 0]
    /\ comb = [c \in Slots |-> NoComb]
    /\ last = NoCall
    /\ threads = <<>>

\* The caller builds an owner: Box::new(d), Rc::new(d), vec![..], ...
Alloc(k, d) ==
    \E b \in FreeBlocks :
        /\ heap' = [heap EXCEPT ![b] = [alive |-> TRUE, shared |-> k \in CloneStableAddress,
                                         data |-> d, rc |-> 1]]
        /\ loose' = [loose EXCEPT ![b] = 1]
        /\ last' = [NoCall EXCEPT !.op = "alloc", !.owner = b]
        /\ UNCHANGED <<comb, threads>>

\* OwningRef::new(o): o is moved in, the pointer is computed from &*o.
New(b) ==
    /\ loose[b] > 0
    /\ FreeSlots # {}
    /\ LET c == CHOOSE x \in FreeSlots : \A y \in FreeSlots : x <= y
       IN  /\ comb' = [comb EXCEPT ![c] = NewResult(heap, b)]
           /\ last' = [NoCall EXCEPT !.op = "new", !.on = c, !.owner = b]
    /\ loose' = [loose EXCEPT ![b] = @ - 1]
    /\ UNCHANGED <<heap, threads>>

\* impl From<O>: `OwningRef::new(owner)`
From(b) == New(b)

\* self.owner(): `&self.owner`, a view of the owner.
Owner(c) ==
    /\ Live(c)
    /\ last' = [NoCall EXCEPT !.op = "owner", !.on = c, !.owner = comb[c].owner,
                              !.val = heap[comb[c].owner].data]
    /\ UNCHANGED <<heap, loose, comb, threads>>

\* Mutant of IntoInner: the owner is dropped with the combinator.
IntoInnerBad(c) ==
    /\ Live(c)
    /\ comb' = [comb EXCEPT ![c] = NoComb]
    /\ loose' = [loose EXCEPT ![comb[c].owner] = @ + 1]
    /\ heap' = OwnerDrop(heap, comb[c].owner)
    /\ last' = [NoCall EXCEPT !.op = "into_inner", !.on = c, !.owner = comb[c].owner,
                              !.val = heap[comb[c].owner].data]
    /\ UNCHANGED threads

\* self.into_inner(): `self.owner`; the combinator is consumed.
IntoInner(c) ==
    /\ Live(c)
    /\ comb' = [comb EXCEPT ![c] = NoComb]
    /\ loose' = [loose EXCEPT ![comb[c].owner] = @ + 1]
    /\ last' = [NoCall EXCEPT !.op = "into_inner", !.on = c, !.owner = comb[c].owner,
                              !.val = heap[comb[c].owner].data]
    /\ UNCHANGED <<heap, threads>>

\* Mutant of Map: self is dropped at the end of every call, not only when f panics.
MapBad(c, f) ==
    /\ Live(c)
    /\ comb' = [comb EXCEPT ![c] = MapResult(comb[c], f)]
    /\ heap' = OwnerDrop(heap, comb[c].owner)
    /\ last' = [NoCall EXCEPT !.op = IF IsPanic(MapPtr(comb[c], f)) THEN "map_panic" ELSE "map",
                              !.on = c, !.owner = comb[c].owner]
    /\ UNCHANGED <<loose, threads>>

\* self.map(f)
Map(c, f) ==
    /\ Live(c)
    /\ comb' = [comb EXCEPT ![c] = MapResult(comb[c], f)]
    /\ heap' = IF IsPanic(MapPtr(comb[c], f)) THEN OwnerDrop(heap, comb[c].owner) ELSE heap
    /\ last' = [NoCall EXCEPT !.op = IF IsPanic(MapPtr(comb[c], f)) THEN "map_panic" ELSE "map",
                              !.on = c, !.owner = comb[c].owner]
    /\ UNCHANGED <<loose, threads>>

\* &*self: the value behind the stored pointer.  Reading through a pointer
\* to released memory is undefined behaviour: any value may come back.
Deref(c) ==
    /\ Live(c)
    /\ \E v \in Payloads \cup {Read(heap, DerefPtr(comb[c]))} :
        /\ Valid(heap, DerefPtr(comb[c])) => v = Read(heap, DerefPtr(comb[c]))
        /\ last' = [NoCall EXCEPT !.op = "deref", !.on = c, !.owner = comb[c].owner, !.val = v]
    /\ UNCHANGED <<heap, loose, comb, threads>>

\* self.clone(), for an owner that is CloneStableAddress.
Clone(c) ==
    /\ Live(c)
    /\ heap[comb[c].owner].shared
    /\ heap[comb[c].owner].rc < MaxHandles
    /\ FreeSlots # {}
    /\ LET d == CHOOSE x \in FreeSlots : \A y \in FreeSlots : x <= y
       IN  /\ comb' = [comb EXCEPT ![d] = CloneResult(comb[c])]
           /\ last' = [NoCall EXCEPT !.op = "clone", !.on = d, !.src = c,
                                     !.owner = comb[c].owner]
    /\ heap' = CloneHeap(heap, comb[c])
    /\ UNCHANGED <<loose, threads>>

\* Mutant of Drop: the owner field is forgotten, not dropped.
DropLeak(c) ==
    /\ Live(c)
    /\ comb' = [comb EXCEPT ![c] = NoComb]
    /\ heap' = heap
    /\ last' = [NoCall EXCEPT !.op = "drop", !.on = c, !.owner = comb[c].owner]
    /\ UNCHANGED <<loose, threads>>

\* The combinator goes out of scope: its owner field is dropped.
Drop(c) ==
    /\ Live(c)
    /\ comb' = [comb EXCEPT ![c] = NoComb]
    /\ heap' = OwnerDrop(heap, comb[c].owner)
    /\ last' = [NoCall EXCEPT !.op = "drop", !.on = c, !.owner = comb[c].owner]
    /\ UNCHANGED <<loose, threads>>

\* An owner held outside any combinator goes out of scope.
DropOwner(b) ==
    /\ loose[b] > 0
    /\ loose' = [loose EXCEPT ![b] = @ - 1]
    /\ heap' = OwnerDrop(heap, b)
    /\ last' = [NoCall EXCEPT !.op = "drop_owner", !.owner = b]
    /\ UNCHANGED <<comb, threads>>

Next ==
    \/ \E k \in StableAddress, d \in Payloads : Alloc(k, d)
    \/ \E b \in Blocks : New(b)
    \/ \E b \in Blocks : From(b)
    \/ \E c \in Slots : Owner(c)
    \/ \E c \in Slots : IntoInner(c)
    \/ \E c \in Slots, f \in PrimProj : Map(c, <<f>>)
    \/ \E c \in Slots : Deref(c)
    \/ \E c \in Slots : Clone(c)
    \/ \E c \in Slots : Drop(c)
    \/ \E b \in Blocks : DropOwner(b)

Spec == Init /\ [][Next]_vars

(***************************************************************************)
(* Properties.                                                              *)
(***************************************************************************)
\* The value a combinator dereferences to in heap h.
DerefVal(h, cv) == Read(h, DerefPtr(cv))

\* C1: dereferencing the combinator right after OwningRef::new(owner), or
\* after owner.into(), yields the value, at the address, that dereferencing
\* the owner yielded before it was moved in.
NewDerefsToOwner ==
    [][\A b \in Blocks :
        (New(b) \/ From(b)) =>
            LET cv == comb'[last'.on]
            IN  /\ cv.st = "live" /\ cv.owner = b
                /\ DerefPtr(cv) = OwnerDeref(heap, b)
                /\ Valid(heap', DerefPtr(cv))
                /\ DerefVal(heap', cv) = Read(heap, OwnerDeref(heap, b))]_vars

NewDerefsToOwnerWitness ==
    /\ last.op = "new"
    /\ Live(last.on)
    /\ DerefVal(heap, comb[last.on]) = heap[last.owner].data
    /\ Len(heap[last.owner].data) = MaxLen

\* c.map(f).map(g): the second map is made on the result of the first, if any.
MapTwice(cv, f, g) ==
    IF MapResult(cv, f).st = "live" THEN MapResult(MapResult(cv, f), g) ELSE NoComb

\* C2: narrowing is associative: c.map(f).map(g) and c.map(|x| g(f(x))) hold
\* the same owner and the same address, and dereference to the same value
\* (or both panic).
MapAssociative ==
    \A c \in Slots : \A f, g \in PrimProj :
        Live(c) =>
            LET two == MapTwice(comb[c], <<f>>, <<g>>)
                one == MapResult(comb[c], Compose(<<f>>, <<g>>))
            IN  /\ two.st = one.st
                /\ two.owner = one.owner
                /\ two.reference = one.reference
                /\ two.st = "live" => DerefVal(heap, two) = DerefVal(heap, one)

MapAssociativeWitness ==
    /\ last.op = "map"
    /\ Live(last.on)
    /\ \E f, g \in PrimProj :
          LET two == MapTwice(comb[last.on], <<f>>, <<g>>)
          IN  /\ two.st = "live"
              /\ two.reference.blk = comb[last.on].owner
              /\ two.reference # comb[last.on].reference
              /\ MapResult(comb[last.on], <<f>>).reference # two.reference
              /\ MapResult(comb[last.on], <<g>>).reference # two.reference

\* C3 as claimed: the stored address of every live combinator points into
\* the storage its owner anchors, and that storage is allocated.
RefInsideOwnerStorage ==
    \A c \in Slots :
        Live(c) =>
            /\ comb[c].reference.blk = comb[c].owner
            /\ Valid(heap, comb[c].reference)

\* C3 as amended: the stored address of every live combinator points either
\* into the storage its owner anchors or into static storage; the owner's
\* storage is allocated, holds the payload it was built with and is
\* reachable only through the handles of its clone-family (one handle for an
\* exclusive owner); the address can be dereferenced.
RefInOwnerOrStatic ==
    \A c \in Slots :
        Live(c) =>
            LET o == comb[c].owner
            IN  /\ comb[c].reference.blk \in {o, StaticBlk}
                /\ Valid(heap, comb[c].reference)
                /\ heap[o].alive
                /\ heap[o].data = comb[c].origin
                /\ heap[o].rc = Handles(comb, loose, o)
                /\ ~heap[o].shared => Handles(comb, loose, o) = 1

RefInOwnerOrStaticWitness ==
    \E c, d \in Slots :
        /\ Live(c) /\ Live(d) /\ c # d
        /\ comb[c].owner = comb[d].owner
        /\ comb[c].reference.blk = StaticBlk
        /\ comb[d].reference.blk = comb[d].owner
        /\ comb[d].reference.len > 0
        /\ last.op = "map"

\* C4: narrowing preserves the owner: a map call leaves the combinator's
\* owner and the owner's data as they were at OwningRef::new; owner()
\* returns that owner and changes neither the owner nor the stored address.
OwnerPreserved ==
    [][\A c \in Slots :
        /\ (last'.op = "map" /\ last'.on = c) =>
                /\ comb'[c].st = "live"
                /\ comb'[c].owner = comb[c].owner
                /\ heap' = heap
                /\ heap'[comb'[c].owner].data = comb[c].origin
                /\ comb'[c].origin = comb[c].origin
        /\ (last'.op = "owner" /\ last'.on = c) =>
                /\ last'.owner = comb[c].owner
                /\ last'.val = comb[c].origin
                /\ heap' = heap
                /\ comb' = comb
                /\ DerefVal(heap', comb'[c]) = DerefVal(heap, comb[c])]_vars

OwnerPreservedWitness ==
    /\ last.op = "owner"
    /\ Live(last.on)
    /\ comb[last.on].reference.blk = comb[last.on].owner
    /\ comb[last.on].reference.off > 0
    /\ comb[last.on].reference.len > 0
    /\ last.val = comb[last.on].origin
    /\ Len(last.val) = MaxLen

\* C5: into_inner() hands back the owner that was moved in at
\* OwningRef::new, allocated and with the data it had then, whatever maps
\* were made; the storage is untouched and the combinator, with its
\* narrowed address, is gone.
IntoInnerRoundTrip ==
    [][\A c \in Slots :
        (last'.op = "into_inner" /\ last'.on = c) =>
            LET o == comb[c].owner
            IN  /\ Live(c)
                /\ comb'[c] = NoComb
                /\ \A d \in Slots \ {c} : comb'[d] = comb[d]
                /\ last'.owner = o
                /\ loose' = [loose EXCEPT ![o] = @ + 1]
                /\ heap' = heap
                /\ heap'[o].alive
                /\ heap'[o].data = comb[c].origin
                /\ last'.val = comb[c].origin]_vars

IntoInnerRoundTripWitness ==
    /\ last.op = "into_inner"
    /\ ~Live(last.on)
    /\ loose[last.owner] = 1
    /\ ~heap[last.owner].shared
    /\ last.val = heap[last.owner].data
    /\ Len(last.val) = MaxLen

\* Slot d holds a combinator over a shared owner that the step is not made on.
Bystander(d) ==
    /\ Live(d)
    /\ heap[comb[d].owner].shared
    /\ ~(last'.on = d /\ last'.op \in {"map", "map_panic", "into_inner", "drop"})

\* C6: duplicates over a shared owner are independent views: whatever is
\* done to another combinator or handle (map, clone, into_inner, drop), a
\* duplicate keeps its owner and address, stays dereferenceable and
\* dereferences to the same value.
DuplicatesIndependent ==
    [][\A d \in Slots :
        Bystander(d) =>
            /\ comb'[d] = comb[d]
            /\ Valid(heap', DerefPtr(comb'[d]))
            /\ DerefVal(heap', comb'[d]) = DerefVal(heap, comb[d])]_vars

DuplicatesIndependentWitness ==
    /\ last.op \in {"drop", "into_inner"}
    /\ ~Live(last.on)
    /\ \E d \in Slots :
          /\ Live(d)
          /\ comb[d].owner = last.owner
          /\ comb[d].reference.blk = last.owner
          /\ comb[d].reference.len > 0
          /\ heap[last.owner].rc = 1

\* C7: clone() of a combinator over a shared owner yields a combinator whose
\* owner handle shares the original's storage and whose address is the
\* original's, narrowed or not: it dereferences to the same value; the
\* original is unchanged.
CloneCopies ==
    [][last'.op = "clone" =>
        LET c == last'.src
            d == last'.on
            o == comb[c].owner
        IN  /\ Live(c) /\ ~Live(d) /\ heap[o].shared
            /\ comb'[d].st = "live"
            /\ comb'[d].owner = o
            /\ comb'[d].reference = comb[c].reference
            /\ comb'[c] = comb[c]
            /\ heap'[o].alive /\ heap'[o].data = heap[o].data
            /\ heap'[o].rc = heap[o].rc + 1
            /\ Valid(heap', DerefPtr(comb'[d]))
            /\ DerefVal(heap', comb'[d]) = DerefVal(heap, comb[c])]_vars

CloneCopiesWitness ==
    /\ last.op = "clone"
    /\ Live(last.on) /\ Live(last.src)
    /\ comb[last.on].reference = comb[last.src].reference
    /\ comb[last.on].reference # OwnerDeref(heap, last.owner)
    /\ comb[last.on].reference.blk = last.owner
    /\ comb[last.on].reference.len > 0

\* Every allocated block has as many handles as its count says, one if it is
\* exclusive, and a block without handles is released; no live combinator
\* stores an address into a released block.
StorageAccounted(h, cm, ls) ==
    /\ \A b \in Blocks :
          /\ h[b].alive <=> Handles(cm, ls, b) > 0
          /\ h[b].alive => h[b].rc = Handles(cm, ls, b)
          /\ (h[b].alive /\ ~h[b].shared) => Handles(cm, ls, b) = 1
    /\ \A c \in DOMAIN cm :
          (cm[c].st = "live" /\ cm[c].reference.blk # StaticBlk)
              => h[cm[c].reference.blk].alive

\* C10: dropping a combinator drops exactly its own owner handle: an
\* exclusive owner's storage is released at that drop, a shared owner's
\* count goes down by one; storage is released exactly when the last handle
\* of its clone-family is dropped, and never while a live combinator stores
\* an address into it.
StorageLifecycle ==
    [][/\ StorageAccounted(heap', comb', loose')
       /\ \A b \in Blocks :
            (heap[b].alive /\ ~heap'[b].alive) =>
                /\ last'.op \in {"drop", "drop_owner", "map_panic"}
                /\ last'.owner = b
                /\ Handles(comb, loose, b) = 1
       /\ last'.op = "drop" =>
            LET o == last'.owner
            IN  /\ Handles(comb', loose', o) = Handles(comb, loose, o) - 1
                /\ \A b \in Blocks \ {o} : heap'[b] = heap[b]
                /\ ~heap[o].shared => ~heap'[o].alive
                /\ (heap[o].shared /\ heap[o].rc > 1) =>
                        heap'[o] = [heap[o] EXCEPT !.rc = @ - 1]
                /\ (heap[o].shared /\ heap[o].rc = 1) => ~heap'[o].alive]_vars

StorageLifecycleWitness ==
    /\ last.op = "drop"
    /\ ~heap[last.owner].alive
    /\ \E b \in Blocks : heap[b].alive /\ heap[b].shared /\ heap[b].rc = MaxHandles

(***************************************************************************)
(* tests::arc_ref: par_sum(rc: ArcRef<[i32]>) -> i32.  Every call runs in a *)
(* thread of its own; the calls form a tree, the call t spawning 2t for the *)
(* left half and 2t+1 for the right half.  The combinator a call holds is   *)
(* kept in the slot of its number.                                          *)
(***************************************************************************)
ParLen == 4         \* longest array summed

MaxI32 == 2147483647
MinI32 == -MaxI32 - 1

\* The elements of the arrays summed: small ones and the largest i32.
ParValues == {-1, 1, MaxI32}

RECURSIVE Tuples(_, _)
Tuples(S, n) ==
    IF n = 0 THEN {<<>>}
    ELSE {Append(s, v) : s \in Tuples(S, n - 1), v \in S}

ParArrays == UNION {Tuples(ParValues, n) : n \in 0..ParLen}

Tasks == 1..(2 ^ ParLen - 1)
Root == 1
LeftOf(t) == 2 * t
RightOf(t) == 2 * t + 1

\* a + b overflows i32.
AddOverflows(a, b) ==
    \/ b > 0 /\ a > MaxI32 - b
    \/ b < 0 /\ a < MinI32 - b

\* a + b in i32 when overflow is not checked: the sum modulo 2^32.
WrappingAdd(a, b) ==
    IF b > 0 /\ a > MaxI32 - b THEN (a - MaxI32) + (b - MaxI32) - 2
    ELSE IF b < 0 /\ a < MinI32 - b THEN (a - MinI32) + (b - MinI32)
    ELSE a + b

NoTask == [pc |-> "idle", left |-> 0, res |-> 0, range |-> NullPtr]

\* The array is behind the Arc of block 1: `Arc::new([..])`, then `.into()`.
ArcBlk == 1

\* threads.arr is a history field (the array par_sum was called on);
\* threads.checks tells whether the build checks arithmetic for overflow.
ParInit ==
    \E arr \in ParArrays, checks \in BOOLEAN :
        /\ heap = [b \in Blocks |->
                     IF b = ArcBlk
                     THEN [alive |-> TRUE, shared |-> "Arc" \in CloneStableAddress,
                           data |-> arr, rc |-> 1]
                     ELSE NoBlock]
        /\ loose = [b \in Blocks |-> 0]
        /\ comb = [t \in Tasks |-> IF t = Root THEN NewResult(heap, ArcBlk) ELSE NoComb]
        /\ last = NoCall
        /\ threads = [arr |-> arr, checks |-> checks,
                      task |-> [t \in Tasks |-> IF t = Root THEN [NoTask EXCEPT !.pc = "start"]
                                                             ELSE NoTask]]

Pc(t) == threads.task[t].pc
ParLenOf(t) == DerefPtr(comb[t]).len
Mid(t) == ParLenOf(t) \div 2

\* `if rc.len() == 0 { return 0 } else if rc.len() == 1 { return rc[0] }`:
\* the call returns and rc is dropped.  Reading rc[0] through a pointer to
\* released memory is undefined behaviour: any element may come back.
ParReturn(t) ==
    /\ Pc(t) = "start"
    /\ ParLenOf(t) <= 1
    /\ \E v \in ParValues \cup {0} :
        /\ ParLenOf(t) = 0 => v = 0
        /\ (ParLenOf(t) = 1 /\ Valid(heap, DerefPtr(comb[t])))
                => v = Read(heap, DerefPtr(comb[t]))[1]
        /\ ParLenOf(t) = 1 => v \in ParValues
        /\ threads' = [threads EXCEPT !.task[t] =
                            [@ EXCEPT !.pc = "done", !.res = v, !.range = DerefPtr(comb[t])]]
    /\ comb' = [comb EXCEPT ![t] = NoComb]
    /\ heap' = OwnerDrop(heap, comb[t].owner)
    /\ UNCHANGED <<loose, last>>

\* The call goes on to split.
ParSplit(t) ==
    /\ Pc(t) = "start"
    /\ ParLenOf(t) > 1
    /\ threads' = [threads EXCEPT !.task[t].pc = "clone", !.task[t].range = DerefPtr(comb[t])]
    /\ UNCHANGED <<heap, loose, comb, last>>

\* `let left = rc.clone().map(|s| &s[..mid]);`
ParLeft(t) ==
    /\ Pc(t) = "clone"
    /\ comb' = [comb EXCEPT ![LeftOf(t)] = MapResult(CloneResult(comb[t]), <<Sub(0, Mid(t))>>)]
    /\ heap' = CloneHeap(heap, comb[t])
    /\ threads' = [threads EXCEPT !.task[t].pc = "map"]
    /\ UNCHANGED <<loose, last>>

\* Mutant of ParRight: the right half starts one element late.
ParRightBad(t) ==
    /\ Pc(t) = "map"
    /\ comb' = [comb EXCEPT ![RightOf(t)] = MapResult(comb[t], <<Sub(Mid(t) + 1, ParLenOf(t))>>),
                            ![t] = NoComb]
    /\ threads' = [threads EXCEPT !.task[t].pc = "spawn_left"]
    /\ UNCHANGED <<heap, loose, last>>

\* `let right = rc.map(|s| &s[mid..]);`
ParRight(t) ==
    /\ Pc(t) = "map"
    /\ comb' = [comb EXCEPT ![RightOf(t)] = MapResult(comb[t], <<Sub(Mid(t), ParLenOf(t))>>),
                            ![t] = NoComb]
    /\ threads' = [threads EXCEPT !.task[t].pc = "spawn_left"]
    /\ UNCHANGED <<heap, loose, last>>

\* `let left = thread::spawn(move || par_sum(left));`
ParSpawnLeft(t) ==
    /\ Pc(t) = "spawn_left"
    /\ threads' = [threads EXCEPT !.task[t].pc = "spawn_right", !.task[LeftOf(t)].pc = "start"]
    /\ UNCHANGED <<heap, loose, comb, last>>

\* `let right = thread::spawn(move || par_sum(right));`
ParSpawnRight(t) ==
    /\ Pc(t) = "spawn_right"
    /\ threads' = [threads EXCEPT !.task[t].pc = "join_left", !.task[RightOf(t)].pc = "start"]
    /\ UNCHANGED <<heap, loose, comb, last>>

\* `left.join().unwrap()`: waits for the left thread; panics if it panicked.
ParJoinLeft(t) ==
    /\ Pc(t) = "join_left"
    /\ Pc(LeftOf(t)) \in {"done", "panicked"}
    /\ threads' = [threads EXCEPT !.task[t] =
                        IF Pc(LeftOf(t)) = "panicked"
                        THEN [@ EXCEPT !.pc = "panicked"]
                        ELSE [@ EXCEPT !.pc = "join_right", !.left = threads.task[LeftOf(t)].res]]
    /\ UNCHANGED <<heap, loose, comb, last>>

\* `+ right.join().unwrap()`: waits for the right thread; panics if it
\* panicked; adds.  An overflowing i32 addition panics in a build with
\* overflow checks and wraps in a build without.
ParJoinRight(t) ==
    /\ Pc(t) = "join_right"
    /\ Pc(RightOf(t)) \in {"done", "panicked"}
    /\ LET l == threads.task[t].left
           r == threads.task[RightOf(t)].res
       IN  threads' = [threads EXCEPT !.task[t] =
                        IF \/ Pc(RightOf(t)) = "panicked"
                           \/ AddOverflows(l, r) /\ threads.checks
                        THEN [@ EXCEPT !.pc = "panicked"]
                        ELSE [@ EXCEPT !.pc = "done", !.res = WrappingAdd(l, r)]]
    /\ UNCHANGED <<heap, loose, comb, last>>

ParStep(t) ==
    \/ ParReturn(t)
    \/ ParSplit(t)
    \/ ParLeft(t)
    \/ ParRight(t)
    \/ ParSpawnLeft(t)
    \/ ParSpawnRight(t)
    \/ ParJoinLeft(t)
    \/ ParJoinRight(t)

ParNext == \E t \in Tasks : ParStep(t)

\* Every thread that can take a step eventually takes one.
SpecPar == ParInit /\ [][ParNext]_vars /\ \A t \in Tasks : WF_vars(ParStep(t))

\* The sum of s taken from left to right in wrapping i32 arithmetic.
RECURSIVE SeqSum(_)
SeqSum(s) ==
    IF s = <<>> THEN 0
    ELSE WrappingAdd(SeqSum(SubSeq(s, 1, Len(s) - 1)), s[Len(s)])

\* One of the additions of the sum of s taken from left to right overflows i32.
RECURSIVE SeqOverflows(_)
SeqOverflows(s) ==
    IF s = <<>> THEN FALSE
    ELSE \/ SeqOverflows(SubSeq(s, 1, Len(s) - 1))
         \/ AddOverflows(SeqSum(SubSeq(s, 1, Len(s) - 1)), s[Len(s)])

\* One of the additions par_sum makes on s overflows i32.
RECURSIVE SplitOverflows(_)
SplitOverflows(s) ==
    IF Len(s) <= 1 THEN FALSE
    ELSE LET l == SubSeq(s, 1, Len(s) \div 2)
             r == SubSeq(s, Len(s) \div 2 + 1, Len(s))
         IN  \/ SplitOverflows(l)
             \/ SplitOverflows(r)
             \/ AddOverflows(SeqSum(l), SeqSum(r))

Finished(t) == Pc(t) \in {"done", "panicked"}
AllFinished == Finished(Root) /\ \A t \in Tasks : Pc(t) \in {"idle", "done", "panicked"}

\* The calls that returned an element or 0 without splitting.
Leaves == {t \in Tasks : Pc(t) = "done" /\ threads.task[t].range.len <= 1}

\* The leaves' sub-ranges are disjoint and cover the array exactly once.
ExactCover ==
    /\ \A i \in 1..Len(threads.arr) :
          Cardinality({t \in Leaves : /\ threads.task[t].range = [blk |-> ArcBlk, off |-> i - 1, len |-> 1]
                                      /\ threads.task[t].res = threads.arr[i]}) = 1
    /\ Cardinality({t \in Leaves : threads.task[t].range.len = 1}) = Len(threads.arr)
    /\ \A t \in Leaves : threads.task[t].range.len = 0 => (t = Root /\ threads.arr = <<>>)

\* A thread that holds a combinator can dereference it.
ParReadsValid ==
    \A t \in Tasks :
        Pc(t) \in {"start", "clone", "map"} =>
            /\ comb[t].st = "live"
            /\ Valid(heap, DerefPtr(comb[t]))
            /\ Read(heap, DerefPtr(comb[t]))
                    = SubSeq(threads.arr, DerefPtr(comb[t]).off + 1,
                             DerefPtr(comb[t]).off + DerefPtr(comb[t]).len)

\* C9 as claimed: for every array (that has a sequential sum in i32),
\* par_sum returns the sequential sum of the array.
ParSumOfEveryArray ==
    (Finished(Root) /\ ~SeqOverflows(threads.arr)) =>
        /\ Pc(Root) = "done"
        /\ threads.task[Root].res = SeqSum(threads.arr)

ParSumSafe ==
    /\ ParReadsValid
    /\ (Finished(Root) /\ ~SplitOverflows(threads.arr)) =>
            /\ Pc(Root) = "done"
            /\ threads.task[Root].res = SeqSum(threads.arr)
            /\ ExactCover
            /\ Len(threads.arr) = 0 => threads.task[Root].res = 0
            /\ Len(threads.arr) = 1 => threads.task[Root].res = threads.arr[1]
    /\ (Finished(Root) /\ SplitOverflows(threads.arr)) =>
            IF threads.checks THEN Pc(Root) = "panicked"
            ELSE Pc(Root) = "done" /\ threads.task[Root].res = SeqSum(threads.arr)
    /\ AllFinished => \A b \in Blocks : ~heap[b].alive

\* C9 as amended: in every interleaving all threads finish; when none of
\* the additions par_sum makes overflows i32, the sub-ranges summed are
\* disjoint and cover the array exactly once and the result is the
\* sequential sum of the array (0 for an empty array, the element for a
\* single one).  When an addition overflows, a build that checks for
\* overflow panics and a build that does not returns the sum modulo 2^32.
ParSumCorrect == []ParSumSafe /\ <>[]AllFinished

ParSumCorrectWitness ==
    /\ AllFinished
    /\ Pc(Root) = "done"
    /\ Len(threads.arr) = ParLen
    /\ ~SplitOverflows(threads.arr)
    /\ \E i \in 1..ParLen : threads.arr[i] = MaxI32
    /\ threads.task[Root].res = SeqSum(threads.arr)
    /\ threads.checks

(***************************************************************************)
(* unsafe impl Send / Sync for OwningRef<O, T>.  Two threads; a combinator  *)
(* is owned by one thread, and other threads may hold a `&OwningRef` to it. *)
(* The types matter here: a combinator carries the owner's type             *)
(* constructor (kind), the owner's payload type (pty) and the target type   *)
(* (tty); "plain" stands for i32, "cell" for Cell<i32>, which is Send but   *)
(* not Sync and can be written through a shared reference.                  *)
(***************************************************************************)
Threads == {1, 2}
ElemTypes == {"plain", "cell"}
CellValues == {0, 1}

ElemSend(ty) == ty \in ElemTypes
ElemSync(ty) == ty = "plain"

\* O: Send and O: Sync for the owners: Box, Vec and String pass the payload's
\* capability on, Rc has neither, Arc needs a payload that is Send and Sync.
OwnerSend(k, pty) ==
    CASE k \in {"Box", "Vec", "String"} -> ElemSend(pty)
      [] k = "Rc" -> FALSE
      [] k = "Arc" -> ElemSend(pty) /\ ElemSync(pty)

OwnerSync(k, pty) ==
    CASE k \in {"Box", "Vec", "String"} -> ElemSync(pty)
      [] k = "Rc" -> FALSE
      [] k = "Arc" -> ElemSend(pty) /\ ElemSync(pty)

\* unsafe impl<O: Send, T: ?Sized> Send for OwningRef<O, T> {}
SendImpl(cv) == OwnerSend(cv.kind, cv.pty)
\* unsafe impl<O: Sync, T: ?Sized> Sync for OwningRef<O, T> {}
SyncImpl(cv) == OwnerSync(cv.kind, cv.pty)

\* The owner's payload is in block 1; block 2 is a leaked Cell<i32>
\* (Box::leak), storage of 'static lifetime that no owner anchors.
OwnedBlk == 1
LeakedBlk == OwnedBlk + 1

Idle == [mode |-> "idle", on |-> 0, ptr |-> NullPtr, v |-> 0]
NoThread == [owns |-> {}, refs |-> {}, acc |-> Idle]

ShInit ==
    \E k \in StableAddress, pty \in ElemTypes, d \in Payloads \ {<<>>} :
        /\ k = "String" => pty = "plain"
        /\ heap = [b \in Blocks |->
                     IF b = OwnedBlk
                     THEN [alive |-> TRUE, shared |-> k \in CloneStableAddress, data |-> d, rc |-> 1]
                     ELSE IF b = LeakedBlk
                     THEN [alive |-> TRUE, shared |-> FALSE, data |-> <<0>>, rc |-> 0]
                     ELSE NoBlock]
        /\ loose = [b \in Blocks |-> 0]
        /\ comb = [c \in Slots |->
                     IF c = 1
                     THEN NewResult(heap, OwnedBlk) @@ [kind |-> k, pty |-> pty, tty |-> pty]
                     ELSE NoComb]
        /\ last = NoCall
        /\ threads = [t \in Threads |-> IF t = 1 THEN [NoThread EXCEPT !.owns = {1}] ELSE NoThread]

Borrowed(c) == \E u \in Threads : c \in threads[u].refs \/ threads[u].acc.on = c
Access(t) == threads[t].owns \cup threads[t].refs

\* The target type of what a projection returns.
TargetType(cv, s) ==
    IF s.tag = "static" THEN "plain" ELSE IF s.tag = "leaked" THEN "cell" ELSE cv.tty

\* self.map(f) by the thread that owns the combinator.
ShMap(t, c, s) ==
    /\ c \in threads[t].owns
    /\ ~Borrowed(c)
    /\ ~IsPanic(MapPtr(comb[c], <<s>>))
    /\ comb' = [comb EXCEPT ![c] = [MapResult(comb[c], <<s>>) EXCEPT !.tty = TargetType(comb[c], s)]]
    /\ UNCHANGED <<heap, loose, last, threads>>

\* self.clone() by a thread that can reach the combinator; the clone is its own.
ShClone(t, c) ==
    /\ c \in Access(t)
    /\ comb[c].kind \in CloneStableAddress
    /\ heap[comb[c].owner].rc < MaxHandles
    /\ FreeSlots # {}
    /\ LET d == CHOOSE x \in FreeSlots : \A y \in FreeSlots : x <= y
       IN  /\ comb' = [comb EXCEPT ![d] = CloneResult(comb[c])]
           /\ threads' = [threads EXCEPT ![t].owns = @ \cup {d}]
    /\ heap' = CloneHeap(heap, comb[c])
    /\ UNCHANGED <<loose, last>>

\* The combinator is moved to another thread: it has to be Send.
ShSend(t, u, c) ==
    /\ t # u
    /\ c \in threads[t].owns
    /\ ~Borrowed(c)
    /\ SendImpl(comb[c])
    /\ threads' = [threads EXCEPT ![t].owns = @ \ {c}, ![u].owns = @ \cup {c}]
    /\ UNCHANGED <<heap, loose, comb, last>>

\* A `&OwningRef` is handed to another thread: the combinator has to be Sync.
ShShare(t, u, c) ==
    /\ t # u
    /\ c \in Access(t)
    /\ c \notin Access(u)
    /\ SyncImpl(comb[c])
    /\ threads' = [threads EXCEPT ![u].refs = @ \cup {c}]
    /\ UNCHANGED <<heap, loose, comb, last>>

\* A thread starts to read the target through `&*self`.
ShRead(t, c) ==
    /\ c \in Access(t)
    /\ threads[t].acc = Idle
    /\ threads' = [threads EXCEPT ![t].acc = [mode |-> "read", on |-> c,
                                               ptr |-> DerefPtr(comb[c]), v |-> 0]]
    /\ UNCHANGED <<heap, loose, comb, last>>

\* A thread starts `(*self).set(v)`: a Cell is written through a shared reference.
ShWrite(t, c, v) ==
    /\ c \in Access(t)
    /\ threads[t].acc = Idle
    /\ comb[c].tty = "cell"
    /\ DerefPtr(comb[c]).len > 0
    /\ threads' = [threads EXCEPT ![t].acc = [mode |-> "write", on |-> c,
                                               ptr |-> DerefPtr(comb[c]), v |-> v]]
    /\ UNCHANGED <<heap, loose, comb, last>>

\* The read or the write is over; a write has stored its value.
ShEnd(t) ==
    /\ threads[t].acc # Idle
    /\ heap' = IF threads[t].acc.mode = "write"
               THEN [heap EXCEPT ![threads[t].acc.ptr.blk].data[threads[t].acc.ptr.off + 1] =
                                     threads[t].acc.v]
               ELSE heap
    /\ threads' = [threads EXCEPT ![t].acc = Idle]
    /\ UNCHANGED <<loose, comb, last>>

\* The owning thread lets the combinator go out of scope.
ShDrop(t, c) ==
    /\ c \in threads[t].owns
    /\ ~Borrowed(c)
    /\ comb' = [comb EXCEPT ![c] = NoComb]
    /\ heap' = OwnerDrop(heap, comb[c].owner)
    /\ threads' = [threads EXCEPT ![t].owns = @ \ {c}]
    /\ UNCHANGED <<loose, last>>

ShNext ==
    \/ \E t \in Threads, c \in Slots, s \in PrimProj \cup {ToLeaked(LeakedBlk)} : ShMap(t, c, s)
    \/ \E t \in Threads, c \in Slots : ShClone(t, c)
    \/ \E t, u \in Threads, c \in Slots : ShSend(t, u, c)
    \/ \E t, u \in Threads, c \in Slots : ShShare(t, u, c)
    \/ \E t \in Threads, c \in Slots : ShRead(t, c)
    \/ \E t \in Threads, c \in Slots, v \in CellValues : ShWrite(t, c, v)
    \/ \E t \in Threads : ShEnd(t)
    \/ \E t \in Threads, c \in Slots : ShDrop(t, c)

SpecShare == ShInit /\ [][ShNext]_vars

Overlap(p, q) == p.blk = q.blk /\ p.off < q.off + q.len /\ q.off < p.off + p.len

\* C8: no thread writes target memory that another thread is reading (or
\* writing) through the combinator or a duplicate of it.
NoWriteWhileReading ==
    \A t, u \in Threads :
        (t # u /\ threads[t].acc.mode = "write" /\ threads[u].acc.mode \in {"read", "write"})
            => ~Overlap(threads[t].acc.ptr, threads[u].acc.ptr)

====
